---- MODULE Spec2Model ----
(***************************************************************************)
(* A model of app.py: the record loader (load_all_data), the aggregator    *)
(* (calculate_stats), the date check and button handler of the page script *)
(* and the per-day / per-month chart series.                               *)
(*                                                                         *)
(* Representation.  A Python string is a sequence of tokens (TLA+ strings  *)
(* that stand for one or more characters): "" is <<>>, " V1" is            *)
(* <<" ", "V1">>.  Python's None is the one-token sequence None below; no   *)
(* input pool holds that token.  A dict or a Counter is a sequence of      *)
(* <<key, value>> pairs in insertion order, which is the order Python      *)
(* keeps.  A date is <<year, month, day>>.                                 *)
(***************************************************************************)
EXTENDS Integers, Sequences, FiniteSets, TLC

VARIABLES
    files,           \* the data/ directory: file name -> file content
    selected_files,  \* the argument of load_all_data (any order)
    queue,           \* the part of sorted(selected_files) not yet processed
    data,            \* the catalog: list of records
    org_id_to_name,  \* dict organization_id -> organization_name
    min_date,        \* date or None
    max_date,        \* date or None
    warnings,        \* st.warning calls of the loader: list of file names
    org_names,       \* sorted distinct organization names of the catalog
    selected_org,    \* widget: organization select box
    d_from,          \* widget: date OD
    d_to,            \* widget: date DO
    call,            \* arguments of the latest calculate_stats invocation
    export_rows,     \* result of calculate_stats
    per_day,         \* result of calculate_stats: Counter date -> count
    top_vins,        \* result of calculate_stats: list of <<vin, count>>
    x_keys,          \* chart series: bucket keys (dates or <<year, month>>)
    y_values,        \* chart series: counts
    per_month,       \* the Counter of the per-month loop
    pos,             \* the entry of per_day the per-month loop is at
    message,         \* what the page shows: "", "error", "info", "result"
    pc               \* position of the modelled run

vars == <<files, selected_files, queue, data, org_id_to_name, min_date, max_date,
          warnings, org_names, selected_org, d_from, d_to, call, export_rows,
          per_day, top_vins, x_keys, y_values, per_month, pos, message, pc>>

loaderVars == <<files, selected_files, queue, data, org_id_to_name, min_date,
                max_date, warnings, org_names>>
filterVars == <<selected_org, d_from, d_to>>
statsVars == <<call, export_rows, per_day, top_vins>>
chartVars == <<x_keys, y_values, per_month, pos>>

----------------------------------------------------------------------------
(* Bounds of the model *)

\* total number of JSON items and CSV rows written into the data/ directory
MaxItems == 3
\* length of the run of records with pairwise distinct VINs in an aggregator input
MaxBulk == 6
\* number of freely chosen records around that run
MaxFree == 2
\* number of distinct days in a chart input
MaxDays == 33

----------------------------------------------------------------------------
(* Python values *)

None == <<"<None>">>

\* bool(v) of a string or None
Truthy(v) == v # None /\ v # <<>>

\* (v or "")
OrEmpty(v) == IF Truthy(v) THEN v ELSE <<>>

RECURSIVE LStrip(_)
LStrip(s) == IF s # <<>> /\ Head(s) = " " THEN LStrip(Tail(s)) ELSE s

RECURSIVE RStrip(_)
RStrip(s) ==
    IF s # <<>> /\ s[Len(s)] = " " THEN RStrip(SubSeq(s, 1, Len(s) - 1)) ELSE s

\* str.strip()
Strip(s) == RStrip(LStrip(s))

\* dict / Counter as a list of <<key, value>> in insertion order
DictHas(d, k) == \E i \in 1..Len(d) : d[i][1] = k

DictGet(d, k, default) ==
    IF DictHas(d, k)
    THEN d[CHOOSE i \in 1..Len(d) : d[i][1] = k][2]
    ELSE default

DictSet(d, k, v) ==
    IF DictHas(d, k)
    THEN [i \in 1..Len(d) |-> IF d[i][1] = k THEN <<k, v>> ELSE d[i]]
    ELSE Append(d, <<k, v>>)

\* Counter: c[k] += n
CounterAdd(c, k, n) == DictSet(c, k, DictGet(c, k, 0) + n)

DictKeys(d) == [i \in 1..Len(d) |-> d[i][1]]

----------------------------------------------------------------------------
(* Dates and the date / time tokens of timestamps *)

DateLT(a, b) ==
    \/ a[1] < b[1]
    \/ a[1] = b[1] /\ a[2] < b[2]
    \/ a[1] = b[1] /\ a[2] = b[2] /\ a[3] < b[3]

DateLE(a, b) == a = b \/ DateLT(a, b)

\* %Y-%m-%d read by strptime: the tokens it accepts and the date each gives.
\* strptime also accepts fields without the leading zero.
DateTokens ==
    {<<"2025-01-02", <<2025, 1, 2>>>>,
     <<"2025-1-2", <<2025, 1, 2>>>>,
     <<"2025-11-01", <<2025, 11, 1>>>>,
     <<"2025-11-02", <<2025, 11, 2>>>>,
     <<"2025-11-03", <<2025, 11, 3>>>>}

\* %H:%M:%S read by strptime
TimeTokens ==
    {<<"07:31:56", <<7, 31, 56>>>>,
     <<"7:31:56", <<7, 31, 56>>>>,
     <<"10:00:00", <<10, 0, 0>>>>}

\* %z read by strptime
OffsetTokens == {"+0000", "+0200"}

IsDateToken(t) == \E p \in DateTokens : p[1] = t
StrpDate(t) == (CHOOSE p \in DateTokens : p[1] = t)[2]
IsTimeToken(t) == \E p \in TimeTokens : p[1] = t
StrpTime(t) == (CHOOSE p \in TimeTokens : p[1] = t)[2]

\* strftime("%Y-%m-%d"), strftime("%H:%M:%S"): zero-padded fields
StrfDate(d) ==
    (CHOOSE p \in DateTokens : p[2] = d /\ \A q \in DateTokens : q[2] = d => Len(q[1]) <= Len(p[1]))[1]
StrfTime(t) ==
    (CHOOSE p \in TimeTokens : p[2] = t /\ \A q \in TimeTokens : q[2] = t => Len(q[1]) <= Len(p[1]))[1]

\* datetime.strptime(s, "%Y-%m-%dT%H:%M:%S%z")
StrptimeOffset(s) ==
    IF Len(s) = 4 /\ IsDateToken(s[1]) /\ s[2] = "T" /\ IsTimeToken(s[3])
       /\ s[4] \in OffsetTokens
    THEN [ok |-> TRUE, date |-> StrpDate(s[1]), time |-> StrpTime(s[3])]
    ELSE [ok |-> FALSE, date |-> None, time |-> None]

\* datetime.strptime(s, "%Y-%m-%dT%H:%M:%S")
StrptimeNaive(s) ==
    IF Len(s) = 3 /\ IsDateToken(s[1]) /\ s[2] = "T" /\ IsTimeToken(s[3])
    THEN [ok |-> TRUE, date |-> StrpDate(s[1]), time |-> StrpTime(s[3])]
    ELSE [ok |-> FALSE, date |-> None, time |-> None]

\* datetime.strptime(s, "%Y-%m-%d %H:%M:%S")
StrptimeOrderDate(s) ==
    IF Len(s) = 3 /\ IsDateToken(s[1]) /\ s[2] = " " /\ IsTimeToken(s[3])
    THEN [ok |-> TRUE, date |-> StrpDate(s[1]), time |-> StrpTime(s[3])]
    ELSE [ok |-> FALSE, date |-> None, time |-> None]

\* parse_timestamp: ok = FALSE is the ValueError
parse_timestamp(ts_str) ==
    LET s == Strip(OrEmpty(ts_str))
        g1 == StrptimeOffset(s)
        g2 == StrptimeNaive(s)
        g3 == IF s # <<>> /\ s[Len(s)] = "Z"
              THEN StrptimeNaive(SubSeq(s, 1, Len(s) - 1))
              ELSE [ok |-> FALSE, date |-> None, time |-> None]
    IN  IF g1.ok THEN g1 ELSE IF g2.ok THEN g2 ELSE g3

----------------------------------------------------------------------------
(* File names *)

\* code point order of the tokens file names are made of
Ord(t) ==
    CASE t = ".csv" -> 1
      [] t = ".json" -> 2
      [] t = ".txt" -> 3
      [] t = "a" -> 97
      [] t = "b" -> 98
      [] t = "c" -> 99

\* str < str
RECURSIVE NameLess(_, _)
NameLess(a, b) ==
    IF b = <<>> THEN FALSE
    ELSE IF a = <<>> THEN TRUE
    ELSE IF Head(a) = Head(b) THEN NameLess(Tail(a), Tail(b))
    ELSE Ord(Head(a)) < Ord(Head(b))

RECURSIVE InsertName(_, _)
InsertName(sorted, n) ==
    IF sorted = <<>> THEN <<n>>
    ELSE IF NameLess(n, Head(sorted)) THEN <<n>> \o sorted
    ELSE <<Head(sorted)>> \o InsertName(Tail(sorted), n)

\* sorted(selected_files)
RECURSIVE SortNames(_)
SortNames(names) ==
    IF names = <<>> THEN <<>>
    ELSE InsertName(SortNames(SubSeq(names, 1, Len(names) - 1)), names[Len(names)])

\* os.path.splitext(fname)[1].lower()
\* (the extension tokens of the model are lower case already)
Ext(fname) ==
    IF fname # <<>> /\ fname[Len(fname)] \in {".csv", ".json", ".txt"}
    THEN fname[Len(fname)]
    ELSE ""

----------------------------------------------------------------------------
(* The data/ directory *)

NoFail == 0 - 1

\* A file: status is "ok", "missing" (os.path.isfile is false) or the way
\* opening and json.load fail; items are the elements of the JSON list or the
\* rows of the CSV reader; a CSV read raises after failAfter rows (NoFail: never).
File(status, items, failAfter) ==
    [status |-> status, items |-> items, failAfter |-> failAfter]

EmptyFile == File("ok", <<>>, NoFail)

JsonRec(ts, oid, oname, uid, vin, rtype) ==
    [time_stamp |-> ts, organization_id |-> oid, organization_name |-> oname,
     user_id |-> uid, query_vin |-> vin, response_type |-> rtype]

\* an element of a JSON list: a mapping, or anything else (a number, a string)
DictItem(rec) == [isdict |-> TRUE, rec |-> rec]
NonDictItem == [isdict |-> FALSE, rec |-> None]

CsvRow(vin, order_date, organisation, order_client) ==
    [vin |-> vin, order_date |-> order_date, organisation |-> organisation,
     order_client |-> order_client]

----------------------------------------------------------------------------
(* load_all_data *)

\* the locals of load_all_data as one value; crashed: an exception left the function
Acc(d, o, mn, mx, w, c) ==
    [data |-> d, org_id_to_name |-> o, min_date |-> mn, max_date |-> mx,
     warnings |-> w, crashed |-> c]

EmptyAcc == Acc(<<>>, <<>>, None, None, <<>>, FALSE)

update_min_max(acc, d) ==
    IF d = None THEN acc
    ELSE [acc EXCEPT
            !.min_date = IF @ = None \/ DateLT(d, @) THEN d ELSE @,
            !.max_date = IF @ = None \/ DateLT(@, d) THEN d ELSE @]

\* the id -> name table after a mutated line 108 that lets a later name replace
\* the one already known
LearnNameLastWins(table, oid, oname) ==
    IF Truthy(oid) /\ Truthy(oname) THEN DictSet(table, oid, oname) ELSE table

\* lines 106-109
LearnName(table, oid, oname) ==
    IF Truthy(oid) /\ Truthy(oname) /\ ~DictHas(table, oid)
    THEN DictSet(table, oid, oname)
    ELSE table

\* one iteration of the loop of load_json
JsonItemStep(acc, item) ==
    IF ~item.isdict THEN [acc EXCEPT !.crashed = TRUE]   \* rec.get: AttributeError
    ELSE
    LET rec == item.rec
        ts_str == rec.time_stamp
        p == parse_timestamp(ts_str)
    IN  IF ~Truthy(ts_str) THEN acc
        ELSE IF ~p.ok THEN acc
        ELSE LET a == update_min_max(acc, p.date)
             IN  [a EXCEPT
                    !.org_id_to_name =
                        LearnName(@, rec.organization_id, rec.organization_name),
                    !.data = Append(@, rec)]

RECURSIVE JsonLoop(_, _)
JsonLoop(acc, items) ==
    IF items = <<>> \/ acc.crashed THEN acc
    ELSE JsonLoop(JsonItemStep(acc, Head(items)), Tail(items))

load_json(acc, fname) ==
    LET f == files[fname]
    IN  IF f.status \in {"unreadable", "undecodable", "badjson"}
        THEN [acc EXCEPT !.warnings = Append(@, fname)]
        ELSE IF f.status = "notlist"
        THEN [acc EXCEPT !.warnings = Append(@, fname)]
        ELSE JsonLoop(acc, f.items)

\* line 135 mutated: no fallback to the id
ResolveNameNoFallback(table, org_id) == DictGet(table, org_id, <<>>)

\* line 135
ResolveName(table, org_id) == DictGet(table, org_id, org_id)

\* one iteration of the loop of load_csv
CsvRowStep(acc, row) ==
    LET vin == Strip(OrEmpty(row.vin))
        order_date == Strip(OrEmpty(row.order_date))
        org_id == Strip(OrEmpty(row.organisation))
        user_id == Strip(OrEmpty(row.order_client))
        dt == StrptimeOrderDate(order_date)
    IN  IF ~Truthy(vin) \/ ~Truthy(order_date) THEN acc
        ELSE IF ~dt.ok THEN acc
        ELSE LET a == update_min_max(acc, dt.date)
                 time_stamp == <<StrfDate(dt.date), "T", StrfTime(dt.time), "+0000">>
                 org_name == ResolveName(a.org_id_to_name, org_id)
             IN  [a EXCEPT !.data =
                      Append(@, JsonRec(time_stamp, org_id, org_name, user_id, vin, None))]

RECURSIVE CsvLoop(_, _)
CsvLoop(acc, rows) ==
    IF rows = <<>> THEN acc ELSE CsvLoop(CsvRowStep(acc, Head(rows)), Tail(rows))

load_csv(acc, fname) ==
    LET f == files[fname]
    IN  IF f.failAfter = NoFail
        THEN CsvLoop(acc, f.items)
        ELSE [CsvLoop(acc, SubSeq(f.items, 1, f.failAfter)) EXCEPT
                 !.warnings = Append(@, fname)]

\* the body of the loop over sorted(selected_files), lines 151-158
LoadOne(acc, fname) ==
    IF files[fname].status = "missing" THEN acc
    ELSE IF Ext(fname) = ".json" THEN load_json(acc, fname)
    ELSE IF Ext(fname) = ".csv" THEN load_csv(acc, fname)
    ELSE acc

RECURSIVE LoadLoop(_, _)
LoadLoop(acc, names) ==
    IF names = <<>> \/ acc.crashed THEN acc
    ELSE LoadLoop(LoadOne(acc, Head(names)), Tail(names))

\* the locals of load_all_data(selection) when it returns or raises
LoadAll(selection) == LoadLoop(EmptyAcc, SortNames(selection))

\* lines 161-167: the set of the truthy organization names (sorted() orders it)
OrgNameSet(d) ==
    {d[i].organization_name : i \in {j \in 1..Len(d) : Truthy(d[j].organization_name)}}

----------------------------------------------------------------------------
(* Specification of the loader: the directory is written, then               *)
(* load_all_data(selected_files) runs one file per step.                     *)

\* the two directories of the model: a JSON file sorted before a CSV file, and
\* a CSV file sorted before a JSON file
DirLayouts ==
    {{<<"a", ".json">>, <<"b", ".csv">>}, {<<"a", ".csv">>, <<"b", ".json">>}}

GoodTs == <<"2025-11-01", "T", "07:31:56", "+0000">>
BadTs == <<"01.11.2025">>

JsonItemPool ==
    {DictItem(JsonRec(GoodTs, <<"5">>, <<"X">>, <<"u">>, <<"V1">>, <<"ok">>)),
     DictItem(JsonRec(GoodTs, <<"5">>, <<"Y">>, <<"u">>, <<"V2">>, <<"ok">>)),
     DictItem(JsonRec(GoodTs, <<"5">>, None, <<"u">>, <<"V3">>, <<"ok">>)),
     DictItem(JsonRec(BadTs, <<"5">>, <<"Y">>, <<"u">>, <<"V4">>, <<"ok">>)),
     DictItem(JsonRec(GoodTs, <<>>, <<"Z">>, <<"u">>, <<"V5">>, <<"ok">>)),
     NonDictItem}

CsvRowPool ==
    {CsvRow(<<" ", "XYZ">>, <<"2025-1-2", " ", "10:00:00">>, <<"5", " ">>, <<"u1">>),
     CsvRow(<<"XYZ">>, <<"02.01.2025">>, <<"5">>, <<"u1">>),
     CsvRow(None, <<"2025-01-02", " ", "10:00:00">>, <<"5">>, <<"u1">>),
     CsvRow(<<"XYZ">>, <<"2025-01-02", " ", "10:00:00">>, <<>>, <<"u1">>)}

JsonFailures == {"unreadable", "undecodable", "badjson", "notlist"}

RECURSIVE SumLen(_)
SumLen(S) ==
    IF S = {} THEN 0
    ELSE LET n == CHOOSE n \in S : TRUE IN Len(files[n].items) + SumLen(S \ {n})

TotalItems == SumLen(DOMAIN files)

\* the sequences without repetition over the set S, the empty one left out
\* (the page stops before load_all_data when nothing is selected)
Selections(S) ==
    {sel \in UNION {[1..k -> S] : k \in 1..Cardinality(S)} :
        \A i, j \in 1..Len(sel) : i # j => sel[i] # sel[j]}

CurAcc == Acc(data, org_id_to_name, min_date, max_date, warnings, FALSE)

SetAcc(a) ==
    /\ data' = a.data
    /\ org_id_to_name' = a.org_id_to_name
    /\ min_date' = a.min_date
    /\ max_date' = a.max_date
    /\ warnings' = a.warnings

IdleFilter == selected_org = <<>> /\ d_from = None /\ d_to = None
\* no invocation of calculate_stats yet
NoCall == [org_name |-> None, d_from |-> None, d_to |-> None]

IdleStats == call = NoCall /\ export_rows = <<>> /\ per_day = <<>> /\ top_vins = <<>>
IdleChart == x_keys = <<>> /\ y_values = <<>> /\ per_month = <<>> /\ pos = 0
IdleLoader ==
    /\ files = <<>> /\ selected_files = <<>> /\ queue = <<>>
    /\ org_id_to_name = <<>> /\ min_date = None /\ max_date = None
    /\ warnings = <<>> /\ org_names = {}

InitLoad ==
    /\ \E names \in DirLayouts : files = [n \in names |-> EmptyFile]
    /\ selected_files = <<>> /\ queue = <<>>
    /\ data = <<>> /\ org_id_to_name = <<>> /\ min_date = None /\ max_date = None
    /\ warnings = <<>> /\ org_names = {}
    /\ IdleFilter /\ IdleStats /\ IdleChart
    /\ message = ""
    /\ pc = "setup"

OnlyFiles ==
    UNCHANGED <<selected_files, queue, data, org_id_to_name, min_date, max_date,
                warnings, org_names, filterVars, statsVars, chartVars, message, pc>>

\* the environment appends an element to the list of a JSON file
WriteItem ==
    /\ pc = "setup" /\ TotalItems < MaxItems
    /\ \E n \in DOMAIN files, item \in JsonItemPool :
        /\ Ext(n) = ".json" /\ files[n].status = "ok"
        /\ files' = [files EXCEPT ![n].items = Append(@, item)]
    /\ OnlyFiles

\* the environment appends a row to a CSV file
WriteRow ==
    /\ pc = "setup" /\ TotalItems < MaxItems
    /\ \E n \in DOMAIN files, row \in CsvRowPool :
        /\ Ext(n) = ".csv" /\ files[n].status = "ok" /\ files[n].failAfter = NoFail
        /\ files' = [files EXCEPT ![n].items = Append(@, row)]
    /\ OnlyFiles

\* a JSON file that cannot be opened, decoded or parsed, or that is no list
CorruptJson ==
    /\ pc = "setup"
    /\ \E n \in DOMAIN files, s \in JsonFailures :
        /\ Ext(n) = ".json" /\ files[n] = EmptyFile
        /\ files' = [files EXCEPT ![n].status = s]
    /\ OnlyFiles

\* a CSV file whose reading raises after k rows (k = 0: it cannot be opened)
CorruptCsv ==
    /\ pc = "setup"
    /\ \E n \in DOMAIN files :
        /\ Ext(n) = ".csv" /\ files[n].status = "ok" /\ files[n].failAfter = NoFail
        /\ \E k \in 0..Len(files[n].items) :
            files' = [files EXCEPT ![n].failAfter = k]
    /\ OnlyFiles

\* a listed file that is gone when load_all_data runs
RemoveFile ==
    /\ pc = "setup"
    /\ \E n \in DOMAIN files :
        /\ files[n] = EmptyFile
        /\ files' = [files EXCEPT ![n].status = "missing"]
    /\ OnlyFiles

\* load_all_data(selected_files) is called: lines 68-71 and the sort of line 150
StartLoad ==
    /\ pc = "setup"
    /\ \E sel \in Selections(DOMAIN files) :
        /\ selected_files' = sel
        /\ queue' = SortNames(sel)
    /\ SetAcc(EmptyAcc)
    /\ pc' = "loading"
    /\ UNCHANGED <<files, org_names, filterVars, statsVars, chartVars, message>>

\* one iteration of the loop of line 150
LoadFile(fname) ==
    LET a == LoadOne(CurAcc, fname)
    IN  /\ SetAcc(a)
        /\ IF a.crashed
           THEN pc' = "crashed" /\ UNCHANGED queue
           ELSE pc' = "loading" /\ queue' = Tail(queue)
        /\ UNCHANGED <<files, selected_files, org_names, filterVars, statsVars,
                       chartVars, message>>

LoadJsonFile ==
    /\ pc = "loading" /\ queue # <<>>
    /\ files[Head(queue)].status # "missing" /\ Ext(Head(queue)) = ".json"
    /\ LoadFile(Head(queue))

LoadCsvFile ==
    /\ pc = "loading" /\ queue # <<>>
    /\ files[Head(queue)].status # "missing" /\ Ext(Head(queue)) = ".csv"
    /\ LoadFile(Head(queue))

SkipFile ==
    /\ pc = "loading" /\ queue # <<>>
    /\ files[Head(queue)].status = "missing" \/ Ext(Head(queue)) \notin {".json", ".csv"}
    /\ LoadFile(Head(queue))

\* lines 161-169
FinishLoad ==
    /\ pc = "loading" /\ queue = <<>>
    /\ org_names' = OrgNameSet(data)
    /\ pc' = "done"
    /\ UNCHANGED <<files, selected_files, queue, data, org_id_to_name, min_date,
                   max_date, warnings, filterVars, statsVars, chartVars, message>>

NextLoad ==
    \/ WriteItem \/ WriteRow \/ CorruptJson \/ CorruptCsv \/ RemoveFile
    \/ StartLoad \/ LoadJsonFile \/ LoadCsvFile \/ SkipFile \/ FinishLoad

SpecLoad == InitLoad /\ [][NextLoad]_vars

----------------------------------------------------------------------------
(* Claims about the loader (SpecLoad) *)

Range(seq) == {seq[i] : i \in 1..Len(seq)}

Without(seq, x) == SelectSeq(seq, LAMBDA y : y # x)

IsPrefix(a, b) == Len(a) <= Len(b) /\ SubSeq(b, 1, Len(a)) = a

\* C2: no file-level error aborts the load: whatever the content of the files,
\* load_all_data does not end by an exception.
C2_NoFileErrorAbortsLoad == pc # "crashed"

\* C3: a file for which a warning was emitted contributes nothing: the catalog
\* and the id -> name table returned are those of the same selection without
\* that file.
C3_WarnedFileContributesNothing ==
    pc = "done" =>
        \A w \in Range(warnings) :
            LET r == LoadAll(Without(selected_files, w))
            IN  data = r.data /\ org_id_to_name = r.org_id_to_name

\* C4 as stated: every record of the catalog with a non-empty organization_id
\* has a non-empty organization_name, whatever its origin.
C4_EveryRecordWithIdHasName ==
    \A i \in 1..Len(data) :
        Truthy(data[i].organization_id) => Truthy(data[i].organization_name)

\* C4 amended: every record load_csv appends has as organization_name the name
\* the id -> name table holds for its organization_id when the row is processed,
\* and otherwise the organization_id itself, so that a non-empty id comes with a
\* non-empty name; the records load_json appends are elements of the file, left
\* as they are (also one without a name whose id has a known name).
C4_CsvRecordsCarryNameOrId ==
    [][pc = "loading" /\ queue # <<>> =>
        /\ Ext(Head(queue)) = ".csv" =>
            \A i \in (Len(data) + 1)..Len(data') :
                /\ data'[i].organization_name =
                     DictGet(org_id_to_name, data'[i].organization_id,
                             data'[i].organization_id)
                /\ Truthy(data'[i].organization_id) =>
                     Truthy(data'[i].organization_name)
        /\ Ext(Head(queue)) = ".json" =>
            \A i \in (Len(data) + 1)..Len(data') :
                \E k \in 1..Len(files[Head(queue)].items) :
                    /\ files[Head(queue)].items[k].isdict
                    /\ data'[i] = files[Head(queue)].items[k].rec
      ]_vars

C4_Witness ==
    /\ pc = "done"
    /\ \E i, j, k \in 1..Len(data) :
        /\ i < j /\ j < k
        /\ data[i].organization_id = <<"5">> /\ data[i].organization_name = <<"X">>
        /\ data[j].organization_id = <<"5">> /\ data[j].organization_name = None
        /\ data[k].response_type = None
        /\ data[k].organization_id = <<"5">> /\ data[k].organization_name = <<"X">>

\* the JSON records that can give the row of CSV file fname a name for oid: the
\* retained records (time_stamp present and parseable) of the selected JSON
\* files sorted before fname that carry this id and a non-empty name
NameGivers(fname, oid) ==
    {g \in UNION {{<<n, k>> : k \in 1..Len(files[n].items)} : n \in Range(selected_files)} :
        LET f == files[g[1]]
            item == f.items[g[2]]
        IN  /\ NameLess(g[1], fname) /\ Ext(g[1]) = ".json" /\ f.status = "ok"
            /\ item.isdict
            /\ Truthy(item.rec.time_stamp) /\ parse_timestamp(item.rec.time_stamp).ok
            /\ Truthy(oid) /\ item.rec.organization_id = oid
            /\ Truthy(item.rec.organization_name)}

GiverBefore(g, h) == NameLess(g[1], h[1]) \/ (g[1] = h[1] /\ g[2] < h[2])

ExpectedName(fname, oid) ==
    LET G == NameGivers(fname, oid)
    IN  IF G = {} THEN oid
        ELSE LET first == CHOOSE g \in G : \A h \in G \ {g} : GiverBefore(g, h)
             IN  files[first[1]].items[first[2]].rec.organization_name

\* C5: name resolution of CSV rows is sequential and first-seen-wins: each
\* record load_csv appends carries the name of the first JSON record, in sorted
\* file order and then list order, processed before it with its organization_id
\* and a non-empty name, or its organization_id if there is none; and no step of
\* the load changes a record that is already in the catalog.
C5_SequentialFirstSeenWins ==
    [][pc = "loading" /\ queue # <<>> =>
        /\ IsPrefix(data, data')
        /\ Ext(Head(queue)) = ".csv" =>
            \A i \in (Len(data) + 1)..Len(data') :
                data'[i].organization_name =
                    ExpectedName(Head(queue), data'[i].organization_id)
      ]_vars

\* a CSV record that kept its id as name although the table learned a name for
\* that id from a file processed later, the selection being given unsorted
C5_Witness ==
    /\ pc = "done"
    /\ selected_files = <<<<"b", ".json">>, <<"a", ".csv">>>>
    /\ DictGet(org_id_to_name, <<"5">>, None) = <<"X">>
    /\ Len(data) = 3
    /\ data[1].response_type = None /\ data[1].organization_name = <<"5">>
    /\ data[2].organization_name = <<"X">>
    /\ data[3].organization_name = <<"Y">>

----------------------------------------------------------------------------
(* calculate_stats *)

\* Counter.most_common keeps this many entries (line 225)
TopN == 5

\* line 201 mutated: the upper end left out
InRangeExclusive(d, from, to) == DateLE(from, d) /\ DateLT(d, to)

\* line 201: d_from <= d <= d_to
InRange(d, from, to) == DateLE(from, d) /\ DateLE(d, to)

\* line 205 mutated: the user made part of the key
DedupKeyWithUser(item) == <<item.query_vin, item.time_stamp, item.user_id>>

\* lines 204-205
DedupKey(item) == <<item.query_vin, item.time_stamp>>

\* line 218 mutated: = 1 instead of += 1
BumpDayAssign(counter, d) == DictSet(counter, d, 1)

\* line 218
BumpDay(counter, d) == CounterAdd(counter, d, 1)

\* lines 208-214
ExportRow(item) ==
    [user_id |-> item.user_id, organization_id |-> item.organization_id,
     organization_name |-> item.organization_name, query_vin |-> item.query_vin,
     time_stamp |-> item.time_stamp]

Stats(u, p, v) == [unique_records |-> u, per_day |-> p, vin_counter |-> v]

\* lines 188-207: the record is passed over: one of the four `continue`s is
\* taken, or its key is already in unique_records
Skipped(st, item, org_name, from, to) ==
    LET ts_str == item.time_stamp
        ts == parse_timestamp(ts_str)
    IN  \/ Truthy(org_name) /\ item.organization_name # org_name
        \/ ~Truthy(ts_str)
        \/ ~ts.ok
        \/ ~InRange(ts.date, from, to)
        \/ DictHas(st.unique_records, DedupKey(item))

\* lines 208-222: the record is retained and counted
Retain(st, item) ==
    LET qvin == item.query_vin
    IN  Stats(DictSet(st.unique_records, DedupKey(item), ExportRow(item)),
              BumpDay(st.per_day, parse_timestamp(item.time_stamp).date),
              IF Truthy(qvin) THEN CounterAdd(st.vin_counter, qvin, 1)
              ELSE st.vin_counter)

\* the loop `for item in data` of lines 186-222
RECURSIVE StatsLoop(_, _, _, _, _)
StatsLoop(st, items, org_name, from, to) ==
    IF items = <<>> THEN st
    ELSE IF Skipped(st, Head(items), org_name, from, to)
    THEN StatsLoop(st, Tail(items), org_name, from, to)
    ELSE StatsLoop(Retain(st, Head(items)), Tail(items), org_name, from, to)

\* the number of entries that a sort by descending count puts before entry i:
\* those of higher count, and those of equal count that were counted earlier
CountRank(counter, i) ==
    Cardinality({j \in 1..Len(counter) :
                    \/ counter[j][2] > counter[i][2]
                    \/ counter[j][2] = counter[i][2] /\ j < i})

\* among equal counts the entry counted later comes first
CountRankLaterFirst(counter, i) ==
    Cardinality({j \in 1..Len(counter) :
                    \/ counter[j][2] > counter[i][2]
                    \/ counter[j][2] = counter[i][2] /\ j > i})

\* a most_common that puts the entry seen later first among equal counts
most_common_unstable(counter, n) ==
    [k \in 1..(IF Len(counter) < n THEN Len(counter) ELSE n) |->
        counter[CHOOSE i \in 1..Len(counter) : CountRankLaterFirst(counter, i) = k - 1]]

\* Counter.most_common(n): the n entries of highest count, by descending count,
\* entries of equal count in the order they were first counted
most_common(counter, n) ==
    [k \in 1..(IF Len(counter) < n THEN Len(counter) ELSE n) |->
        counter[CHOOSE i \in 1..Len(counter) : CountRank(counter, i) = k - 1]]

\* calculate_stats(data, org_name, d_from, d_to)
calculate_stats(items, org_name, from, to) ==
    LET st == StatsLoop(Stats(<<>>, <<>>, <<>>), items, org_name, from, to)
    IN  [export_rows |-> [i \in 1..Len(st.unique_records) |-> st.unique_records[i][2]],
         per_day |-> st.per_day,
         top_vins |-> most_common(st.vin_counter, TopN)]

----------------------------------------------------------------------------
(* Specification of the aggregator: a list of records is built, then         *)
(* calculate_stats is applied to it with some filter.                        *)

D1 == <<2025, 11, 1>>
D2 == <<2025, 11, 2>>

T1 == <<"2025-11-01", "T", "07:31:56", "+0000">>
T1z == <<"2025-11-01", "T", "07:31:56", "Z">>
T2 == <<" ", "2025-11-02", "T", "7:31:56">>

Vin(i) == <<"V" \o ToString(i)>>

OrgId(name) == IF name = <<"A">> THEN <<"1">> ELSE <<"2">>

\* a freely chosen record
FreeRec(vin, ts, org) == JsonRec(ts, OrgId(org), org, <<"w">>, vin, <<"ok">>)

\* the i-th record of a run of records with pairwise distinct VINs
BulkRec(i) == JsonRec(T1, <<"1">>, <<"A">>, <<"u">>, Vin(i), None)

RecordPool ==
    {FreeRec(None, T1, <<"A">>),
     FreeRec(<<>>, T1, <<"A">>),
     FreeRec(Vin(1), T1, <<"A">>),
     FreeRec(Vin(1), T1, <<"B">>),
     FreeRec(Vin(1), T1z, <<"A">>),
     FreeRec(Vin(MaxBulk), T2, <<"A">>),
     FreeRec(Vin(1), BadTs, <<"A">>),
     FreeRec(Vin(MaxBulk + 1), T2, <<"B">>)}

OrgFilters == {<<>>, <<"A">>}
DateRanges == {<<D1, D2>>, <<D1, D1>>, <<D2, D2>>}

FreeCount == Cardinality({i \in 1..Len(data) : data[i].user_id = <<"w">>})

InitStats ==
    /\ IdleLoader /\ IdleFilter /\ IdleStats /\ IdleChart
    /\ data = <<>>
    /\ message = ""
    /\ pc = "head"

OnlyData ==
    UNCHANGED <<files, selected_files, queue, org_id_to_name, min_date, max_date,
                warnings, org_names, filterVars, statsVars, chartVars, message>>

\* one more freely chosen record
AddFree ==
    /\ pc \in {"head", "tail"} /\ FreeCount < MaxFree
    /\ \E r \in RecordPool : data' = Append(data, r)
    /\ pc' = pc
    /\ OnlyData

\* a run of k records with the VINs V1 .. Vk
AddBulk ==
    /\ pc = "head"
    /\ \E k \in 0..MaxBulk : data' = data \o [i \in 1..k |-> BulkRec(i)]
    /\ pc' = "tail"
    /\ OnlyData

Calculate ==
    /\ pc = "tail"
    /\ \E org \in OrgFilters, range \in DateRanges :
        LET r == calculate_stats(data, org, range[1], range[2])
        IN  /\ call' = [org_name |-> org, d_from |-> range[1], d_to |-> range[2]]
            /\ export_rows' = r.export_rows
            /\ per_day' = r.per_day
            /\ top_vins' = r.top_vins
    /\ pc' = "done"
    /\ UNCHANGED <<loaderVars, filterVars, chartVars, message>>

NextStats == AddFree \/ AddBulk \/ Calculate

SpecStats == InitStats /\ [][NextStats]_vars

----------------------------------------------------------------------------
(* Claims about the aggregator (SpecStats) *)

\* the date of a record whose time_stamp parses
DateOfTs(ts_str) == parse_timestamp(ts_str).date

\* a record passes the filter of the call
Passes(rec) ==
    /\ call.org_name = <<>> \/ rec.organization_name = call.org_name
    /\ Truthy(rec.time_stamp) /\ parse_timestamp(rec.time_stamp).ok
    /\ DateLE(call.d_from, DateOfTs(rec.time_stamp))
    /\ DateLE(DateOfTs(rec.time_stamp), call.d_to)

SameKey(a, b) == a.query_vin = b.query_vin /\ a.time_stamp = b.time_stamp

\* the places in the catalog of the first passing record of each key
FirstPassing ==
    {i \in 1..Len(data) :
        /\ Passes(data[i])
        /\ \A j \in 1..(i - 1) : Passes(data[j]) => ~SameKey(data[j], data[i])}

\* the elements of a set of numbers in increasing order
Ascending(S) ==
    [k \in 1..Cardinality(S) |->
        CHOOSE m \in S : Cardinality({x \in S : x < m}) = k - 1]

\* C1: exportRows holds no two rows with the same (query_vin, time_stamp) pair.
C1_NoDuplicateKeys ==
    pc = "done" =>
        \A i, j \in 1..Len(export_rows) :
            i # j => ~SameKey(export_rows[i], export_rows[j])

\* two records with the same key, a null VIN among the keys, passed the filter
C1_Witness ==
    /\ pc = "done"
    /\ \E i, j \in 1..Len(data) :
        i < j /\ Passes(data[i]) /\ Passes(data[j]) /\ SameKey(data[i], data[j])
    /\ \E i \in 1..Len(export_rows) : export_rows[i].query_vin = None
    /\ Len(export_rows) >= 2

\* C10: exportRows is, in catalog order, the first record of each key among the
\* records that pass the filter (organization filter empty or equal to the
\* name, time_stamp parseable, d_from <= date <= d_to), each row carrying the
\* five fields of that record and no response_type.
C10_ExportRowsAreFirstPassing ==
    pc = "done" =>
        LET idx == Ascending(FirstPassing)
        IN  /\ Len(export_rows) = Len(idx)
            /\ \A k \in 1..Len(idx) :
                /\ DOMAIN export_rows[k] =
                     {"user_id", "organization_id", "organization_name",
                      "query_vin", "time_stamp"}
                /\ \A f \in DOMAIN export_rows[k] : export_rows[k][f] = data[idx[k]][f]

\* a record that fails the organization filter is followed by a record with the
\* same key that passes it and is retained, and a record dated at the upper end
\* of the range is retained
C10_Witness ==
    /\ pc = "done"
    /\ \E i, j \in 1..Len(data) :
        /\ i < j /\ SameKey(data[i], data[j])
        /\ ~Passes(data[i]) /\ j \in FirstPassing
    /\ \E k \in 1..Len(export_rows) :
        /\ DateOfTs(export_rows[k].time_stamp) = call.d_to
        /\ export_rows[k].user_id = <<"w">>
    /\ call.d_from # call.d_to

RowsWithVin(v) == {i \in 1..Len(export_rows) : export_rows[i].query_vin = v}

RankedVins == {export_rows[i].query_vin : i \in {j \in 1..Len(export_rows) : Truthy(export_rows[j].query_vin)}}

FirstRow(v) == CHOOSE i \in RowsWithVin(v) : \A j \in RowsWithVin(v) : i <= j

\* v ranks before w: more retained rows, or as many and first retained earlier
RanksBefore(v, w) ==
    \/ Cardinality(RowsWithVin(v)) > Cardinality(RowsWithVin(w))
    \/ /\ Cardinality(RowsWithVin(v)) = Cardinality(RowsWithVin(w))
       /\ FirstRow(v) < FirstRow(w)

\* C6: topVins has at most 5 entries, only non-empty VINs, each with the number
\* of retained rows of that VIN, by descending count and among equal counts in
\* the order the VINs were first retained; it leaves out only VINs that rank
\* after all it holds; a retained row with a null or empty VIN is in exportRows
\* and in perDayCounts but not in the ranking.
C6_TopVins ==
    pc = "done" =>
        /\ Len(top_vins) <= TopN
        /\ Len(top_vins) = IF Cardinality(RankedVins) < TopN
                           THEN Cardinality(RankedVins) ELSE TopN
        /\ \A i \in 1..Len(top_vins) :
            /\ Truthy(top_vins[i][1])
            /\ top_vins[i][1] \in RankedVins
            /\ top_vins[i][2] = Cardinality(RowsWithVin(top_vins[i][1]))
        /\ \A i, j \in 1..Len(top_vins) :
            i < j => /\ top_vins[i][2] >= top_vins[j][2]
                     /\ RanksBefore(top_vins[i][1], top_vins[j][1])
        /\ \A v \in RankedVins \ {top_vins[i][1] : i \in 1..Len(top_vins)} :
            \A i \in 1..Len(top_vins) : RanksBefore(top_vins[i][1], v)
        /\ \A i \in 1..Len(export_rows) :
            ~Truthy(export_rows[i].query_vin) =>
                DictGet(per_day, DateOfTs(export_rows[i].time_stamp), 0) >= 1

\* more than 5 VINs were retained, the one retained last leads with two rows,
\* the others tie, and a row with a null VIN was retained
C6_Witness ==
    /\ pc = "done"
    /\ Cardinality(RankedVins) > TopN
    /\ Len(top_vins) = TopN
    /\ top_vins[1] = <<Vin(MaxBulk), 2>>
    /\ top_vins[2] = <<Vin(1), 1>>
    /\ \E i \in 1..Len(export_rows) : export_rows[i].query_vin = None

RECURSIVE SumCounts(_)
SumCounts(counter) ==
    IF counter = <<>> THEN 0 ELSE Head(counter)[2] + SumCounts(Tail(counter))

\* C7: the perDayCounts values sum to len(exportRows), and the count of each
\* date is the number of retained rows whose time_stamp has that date.
C7_PerDayCounts ==
    pc = "done" =>
        /\ SumCounts(per_day) = Len(export_rows)
        /\ \A i \in 1..Len(per_day) :
            per_day[i][2] =
                Cardinality({k \in 1..Len(export_rows) :
                                DateOfTs(export_rows[k].time_stamp) = per_day[i][1]})
        /\ \A k \in 1..Len(export_rows) :
            DictHas(per_day, DateOfTs(export_rows[k].time_stamp))
        /\ \A i, j \in 1..Len(per_day) : i # j => per_day[i][1] # per_day[j][1]

\* two days have counts, one of them more than one, and a duplicate was dropped
C7_Witness ==
    /\ pc = "done"
    /\ Len(per_day) = 2
    /\ \E i \in 1..Len(per_day) : per_day[i][2] >= 2
    /\ \E i, j \in 1..Len(data) :
        i < j /\ Passes(data[i]) /\ Passes(data[j]) /\ SameKey(data[i], data[j])

----------------------------------------------------------------------------
(* The page script from the filters on (lines 314-461): every interaction     *)
(* with a widget runs the script again with the widgets' current values.     *)

AllOrgs == <<"(Sve organizacije)">>

\* line 341 mutated: the check never fires
InvalidRangeNever(from, to) == FALSE

\* line 341: d_from > d_to
InvalidRange(from, to) == DateLT(to, from)

\* one run of the script; pressed: this run was caused by the result button
RunScript(org, from, to, pressed) ==
    /\ selected_org' = org /\ d_from' = from /\ d_to' = to
    /\ IF data = <<>>
       THEN message' = "nodata" /\ UNCHANGED statsVars
       ELSE IF InvalidRange(from, to)
       THEN message' = "error" /\ UNCHANGED statsVars
       ELSE IF pressed
       THEN LET org_filter == IF org # AllOrgs THEN org ELSE <<>>
                r == calculate_stats(data, org_filter, from, to)
            IN  /\ call' = [org_name |-> org_filter, d_from |-> from, d_to |-> to]
                /\ export_rows' = r.export_rows
                /\ per_day' = r.per_day
                /\ top_vins' = r.top_vins
                /\ message' = IF r.export_rows = <<>> THEN "empty" ELSE "result"
       ELSE message' = "info" /\ UNCHANGED statsVars
    /\ UNCHANGED <<loaderVars, chartVars, pc>>

\* the catalogs of the page: none, and one of two organizations on two days
UiCatalogs ==
    {<<>>,
     <<FreeRec(Vin(1), T1, <<"A">>), FreeRec(Vin(2), T2, <<"B">>),
       FreeRec(Vin(1), T1, <<"B">>)>>}

\* the dates the user can pick
UiDates == {<<2025, 1, 2>>, D1, D2, <<2025, 11, 3>>}

RECURSIVE SpanLoop(_, _)
SpanLoop(acc, recs) ==
    IF recs = <<>> THEN acc
    ELSE SpanLoop(update_min_max(acc, parse_timestamp(Head(recs).time_stamp).date),
                  Tail(recs))

\* the page after its first run: the widgets hold their defaults (lines 330-339)
InitUI ==
    /\ files = <<>> /\ selected_files = <<>> /\ queue = <<>>
    /\ org_id_to_name = <<>> /\ warnings = <<>>
    /\ data \in UiCatalogs
    /\ org_names = OrgNameSet(data)
    /\ min_date = SpanLoop(EmptyAcc, data).min_date
    /\ max_date = SpanLoop(EmptyAcc, data).max_date
    /\ selected_org = AllOrgs
    /\ d_from = (IF min_date # None THEN min_date ELSE <<2020, 1, 1>>)
    /\ d_to = (IF max_date # None THEN max_date ELSE <<2025, 11, 3>>)
    /\ IdleStats /\ IdleChart
    /\ message = (IF data = <<>> THEN "nodata" ELSE "info")
    /\ pc = "page"

WidgetsShown == pc = "page" /\ message # "nodata"

PickOrg ==
    /\ WidgetsShown
    /\ \E o \in {AllOrgs} \cup org_names : RunScript(o, d_from, d_to, FALSE)

PickFrom ==
    /\ WidgetsShown
    /\ \E d \in UiDates : RunScript(selected_org, d, d_to, FALSE)

PickTo ==
    /\ WidgetsShown
    /\ \E d \in UiDates : RunScript(selected_org, d_from, d, FALSE)

\* the button is on the page only when the last run got past the date check
ClickResult ==
    /\ WidgetsShown /\ message # "error"
    /\ RunScript(selected_org, d_from, d_to, TRUE)

NextUI == PickOrg \/ PickFrom \/ PickTo \/ ClickResult

SpecUI == InitUI /\ [][NextUI]_vars

\* C8: a filter with d_from > d_to is answered by the validation error and
\* calculate_stats is never invoked with d_from > d_to.
C8_NeverCalledWithInvalidRange ==
    /\ call # NoCall => DateLE(call.d_from, call.d_to)
    /\ (pc = "page" /\ data # <<>> /\ DateLT(d_to, d_from)) => message = "error"

\* the user got a result and then picked a range with d_from > d_to
C8_Witness ==
    /\ pc = "page" /\ message = "error"
    /\ DateLT(d_to, d_from)
    /\ call # NoCall /\ export_rows # <<>>

----------------------------------------------------------------------------
(* The per-day / per-month series of the first chart (lines 401-422)          *)

\* line 402: up to this many days the chart is per day
DayThreshold == 31

\* sorted() of a list of tuples of numbers
RECURSIVE TupleLess(_, _)
TupleLess(a, b) ==
    IF b = <<>> THEN FALSE
    ELSE IF a = <<>> THEN TRUE
    ELSE IF Head(a) = Head(b) THEN TupleLess(Tail(a), Tail(b))
    ELSE Head(a) < Head(b)

\* sorted() of the keys of a dict (pairwise different): the i-th is the key
\* with i - 1 smaller keys
SortTuples(ts) ==
    LET S == {ts[i] : i \in 1..Len(ts)}
    IN  [i \in 1..Len(ts) |->
            CHOOSE t \in S : Cardinality({u \in S : TupleLess(u, t)}) = i - 1]

\* line 402 mutated: < instead of <=
PerDayChartStrict(counter) == Len(counter) < DayThreshold

\* line 402
PerDayChart(counter) == Len(counter) <= DayThreshold

\* lines 404-406: the per-day series
DaySeries(counter) ==
    LET dates_sorted == SortTuples(DictKeys(counter))
    IN  [keys |-> dates_sorted,
         values |-> [i \in 1..Len(dates_sorted) |-> DictGet(counter, dates_sorted[i], 0)]]

\* lines 417-419: the per-month series
MonthSeries(counter) ==
    LET months_sorted == SortTuples(DictKeys(counter))
    IN  [keys |-> months_sorted,
         values |-> [i \in 1..Len(months_sorted) |-> DictGet(counter, months_sorted[i], 0)]]

\* the n-th day (n = 0: 1 January) of a year without 29 February
MonthLengths == <<31, 28, 31, 30, 31, 30, 31, 31, 30, 31, 30, 31>>

RECURSIVE DayInYear(_, _, _)
DayInYear(y, m, n) ==
    IF n < MonthLengths[m] THEN <<y, m, n + 1>>
    ELSE DayInYear(y, m + 1, n - MonthLengths[m])

\* the date n days after 1 January 2025, up to the end of 2027
DayToDate(n) == DayInYear(2025 + (n \div 365), 1, n % 365)

ChartStarts == {0, 350}
ChartStrides == {1, 12, 25}
ChartPatterns == {1, 3}

\* a Counter of n days, stride days apart from day start, counted in ascending
\* or in descending order, with counts 1 .. pattern
DayCounter(n, start, stride, pattern, descending) ==
    [i \in 1..n |->
        <<DayToDate(start + stride * (IF descending THEN n - i ELSE i - 1)),
          1 + (i % pattern)>>]

InitChart ==
    /\ IdleLoader /\ IdleFilter
    /\ data = <<>>
    /\ call = NoCall /\ export_rows = <<>> /\ top_vins = <<>>
    /\ \E n \in 0..MaxDays, start \in ChartStarts, stride \in ChartStrides,
          pattern \in ChartPatterns, descending \in BOOLEAN :
        per_day = DayCounter(n, start, stride, pattern, descending)
    /\ IdleChart
    /\ message = ""
    /\ pc = "chart"

ChartDone(title, series) ==
    /\ x_keys' = series.keys
    /\ y_values' = series.values
    /\ message' = title
    /\ pc' = "charted"

\* line 401, else branch: nothing to plot
ChartNothing ==
    /\ pc = "chart" /\ per_day = <<>>
    /\ ChartDone("none", [keys |-> <<>>, values |-> <<>>])
    /\ UNCHANGED <<loaderVars, filterVars, statsVars, per_month, pos>>

\* lines 402-409
ChartPerDay ==
    /\ pc = "chart" /\ per_day # <<>> /\ PerDayChart(per_day)
    /\ ChartDone("day", DaySeries(per_day))
    /\ UNCHANGED <<loaderVars, filterVars, statsVars, per_month, pos>>

\* lines 410-412
StartPerMonth ==
    /\ pc = "chart" /\ per_day # <<>> /\ ~PerDayChart(per_day)
    /\ per_month' = <<>> /\ pos' = 1
    /\ pc' = "months"
    /\ UNCHANGED <<loaderVars, filterVars, statsVars, x_keys, y_values, message>>

\* lines 413-415: one iteration of the loop over per_day.items()
AddToMonth ==
    /\ pc = "months" /\ pos <= Len(per_day)
    /\ per_month' = CounterAdd(per_month,
                               <<per_day[pos][1][1], per_day[pos][1][2]>>,
                               per_day[pos][2])
    /\ pos' = pos + 1
    /\ UNCHANGED <<loaderVars, filterVars, statsVars, x_keys, y_values, message, pc>>

\* lines 417-422
ChartPerMonth ==
    /\ pc = "months" /\ pos > Len(per_day)
    /\ ChartDone("month", MonthSeries(per_month))
    /\ UNCHANGED <<loaderVars, filterVars, statsVars, per_month, pos>>

NextChart ==
    ChartNothing \/ ChartPerDay \/ StartPerMonth \/ AddToMonth \/ ChartPerMonth

SpecChart == InitChart /\ [][NextChart]_vars

Days == {per_day[i][1] : i \in 1..Len(per_day)}
Months == {<<d[1], d[2]>> : d \in Days}

RECURSIVE SumSeq(_)
SumSeq(seq) == IF seq = <<>> THEN 0 ELSE Head(seq) + SumSeq(Tail(seq))

RECURSIVE SumOfDays(_)
SumOfDays(S) ==
    IF S = {} THEN 0
    ELSE LET d == CHOOSE d \in S : TRUE
         IN  DictGet(per_day, d, 0) + SumOfDays(S \ {d})

\* C9: with at most 31 distinct days the series has one bucket per day in
\* ascending date order; with more it has one bucket per (year, month) in
\* ascending order, each the sum of the counts of its days; either way the
\* buckets sum to the sum of the daily counts.
C9_ChartBuckets ==
    pc = "charted" =>
        /\ \A i, j \in 1..Len(x_keys) : i < j => TupleLess(x_keys[i], x_keys[j])
        /\ Len(y_values) = Len(x_keys)
        /\ SumSeq(y_values) = SumCounts(per_day)
        /\ IF Cardinality(Days) <= DayThreshold
           THEN /\ {x_keys[i] : i \in 1..Len(x_keys)} = Days
                /\ \A i \in 1..Len(x_keys) : y_values[i] = DictGet(per_day, x_keys[i], 0)
           ELSE /\ {x_keys[i] : i \in 1..Len(x_keys)} = Months
                /\ \A i \in 1..Len(x_keys) :
                    y_values[i] =
                        SumOfDays({d \in Days : <<d[1], d[2]>> = x_keys[i]})

\* more than 31 days that span two years, counted in descending order, were
\* put into monthly buckets, one of them of several days
C9_Witness ==
    /\ pc = "charted" /\ message = "month"
    /\ Cardinality(Days) > DayThreshold
    /\ \E i, j \in 1..Len(x_keys) : x_keys[i][1] # x_keys[j][1]
    /\ \E i \in 1..Len(x_keys) :
        Cardinality({d \in Days : <<d[1], d[2]>> = x_keys[i]}) > 1
    /\ DateLT(per_day[2][1], per_day[1][1])

====
